---- MODULE Spec2Model ----
(***************************************************************************)
(* The graph schema layer of app/models.py: the persisted tables graphs,   *)
(* nodes and edges with their foreign keys, NOT NULL columns, Numeric      *)
(* columns and ORM relationships, and the transfer schemas that validate    *)
(* what is written to them.  One action is one unit of work of the         *)
(* persistence engine (validate, flush, commit or roll back).               *)
(*                                                                         *)
(* Encoding.  A str is a sequence of characters.  Optional[T] is a set of  *)
(* at most one T: None is {} and a present value v is {v}.  A Dict is a    *)
(* set of <<key, value>> pairs.  A non-negative decimal number is a record *)
(* [whole, frac] with frac counted in units of 10^-FracDigits.  The        *)
(* timestamps, positions, style and properties columns are left out: no    *)
(* constraint of the schema relates them to another column.                *)
(***************************************************************************)
EXTENDS Integers, Sequences, FiniteSets, TLC

VARIABLES graphs, nodes, edges, nextGraphId, nextNodeId, nextEdgeId, lastOp

vars == <<graphs, nodes, edges, nextGraphId, nextNodeId, nextEdgeId, lastOp>>

store == <<graphs, nodes, edges>>

(* ---- bounds of the model ---- *)
MaxGraphs == 2

MaxNodes == 2

MaxEdges == 1

(* the decimal places a weight of a request is written with *)
FracDigits == 7

(* ---- the tables ---- *)
Edge(id, graph_id, edge_id, source_node_id, target_node_id, label, weight, data) ==
    [id |-> id, graph_id |-> graph_id, edge_id |-> edge_id,
     source_node_id |-> source_node_id, target_node_id |-> target_node_id,
     label |-> label, weight |-> weight, data |-> data]

Node(id, graph_id, node_id, label, data) ==
    [id |-> id, graph_id |-> graph_id, label |-> label, data |-> data,
     node_id |-> node_id]

Graph(id, name, description) ==
    [id |-> id, name |-> name, description |-> description]

(* ---- the transfer schemas ---- *)
NodeData(id, label, data) == [id |-> id, label |-> label, data |-> data]

EdgeData(id, source, target, label, weight, data) ==
    [id |-> id, label |-> label, weight |-> weight, data |-> data,
     source |-> source, target |-> target]

GraphInput(name, description, ns, es) ==
    [nodes |-> ns, edges |-> es, name |-> name, description |-> description]

GraphCreate(name, description) == [name |-> name, description |-> description]

GraphUpdate(name, description) == [name |-> name, description |-> description]

NodeCreate(graph_id, node_id, label, data) ==
    [graph_id |-> graph_id, label |-> label, data |-> data, node_id |-> node_id]

NodeUpdate(label, data) == [label |-> label, data |-> data]

EdgeCreate(graph_id, edge_id, source_node_id, target_node_id, label, weight, data) ==
    [graph_id |-> graph_id, edge_id |-> edge_id,
     source_node_id |-> source_node_id, target_node_id |-> target_node_id,
     label |-> label, weight |-> weight, data |-> data]

EdgeUpdate(label, weight, data) == [label |-> label, weight |-> weight, data |-> data]

GraphExport(name, description, ns, es) ==
    [nodes |-> ns, edges |-> es, name |-> name, description |-> description]

(* ---- Optional[T] ---- *)
None == {}

Some(v) == {v}

Get(o) == CHOOSE v \in o : TRUE

OrDefault(o, d) == IF o = None THEN d ELSE Get(o)

(* ---- strings ---- *)
Str(n) == [i \in 1..n |-> "a"]

EmptyStr == <<>>

(* ---- Field(max_length=...) ---- *)
NameMaxLength == 200

DescriptionMaxLength == 1000

NodeIdMaxLength == 100

LabelMaxLength == 200

EdgeIdMaxLength == 100

MaxLengthOkOffByOne(s, n) == Len(s) <= n + 1

MaxLengthOk(s, n) == Len(s) <= n

OptMaxLengthOk(o, n) == o = None \/ MaxLengthOk(Get(o), n)

(* ---- Field(decimal_places=6, max_digits=12) ---- *)
DecimalPlaces == 6

MaxDigits == 12

RECURSIVE Pow10(_)
Pow10(k) == IF k = 0 THEN 1 ELSE 10 * Pow10(k - 1)

Dec(w, f) == [whole |-> w, frac |-> f]

(* one unit of the last stored decimal place, in units of 10^-FracDigits *)
Ulp == Pow10(FracDigits - DecimalPlaces)

QuantizeTruncates(d) == Dec(d.whole, (d.frac \div Ulp) * Ulp)

(* a float written to a Numeric(12, 6) column is rounded to 6 decimal places *)
Quantize(d) ==
    LET r == ((d.frac + (Ulp \div 2)) \div Ulp) * Ulp
    IN  IF r = Pow10(FracDigits) THEN Dec(d.whole + 1, 0) ELSE Dec(d.whole, r)

(* and must fit the 12 - 6 digits the column leaves before the point *)
FitsNumeric(d) == Quantize(d).whole < Pow10(MaxDigits - DecimalPlaces)

OptFitsNumeric(o) == o = None \/ FitsNumeric(Get(o))

OptQuantize(o) == IF o = None THEN None ELSE Some(Quantize(Get(o)))

(* ---- defaults ---- *)
NodeLabelDefaultWrong == <<"?">>

NodeLabelDefault == EmptyStr

EdgeLabelDefault == EmptyStr

DataDefault == {}

DescriptionDefault == EmptyStr

UntitledGraph ==
    <<"U", "n", "t", "i", "t", "l", "e", "d", " ", "G", "r", "a", "p", "h">>

(* ---- rows and primary keys ---- *)
Ids(rows) == {r.id : r \in rows}

Row(rows, id) == CHOOSE r \in rows : r.id = id

(* ---- ORM relationships ---- *)
GraphNodesWrongJoin(g) == {n \in nodes : n.id = g}

GraphNodes(g) == {n \in nodes : n.graph_id = g}

GraphEdges(g) == {e \in edges : e.graph_id = g}

NodeOutgoingEdges(n) == {e \in edges : e.source_node_id = n}

NodeIncomingEdges(n) == {e \in edges : e.target_node_id = n}

(* ---- foreign keys ---- *)
ForeignKeyUnchecked(rows, id) == TRUE

ForeignKeyOk(rows, id) == id \in Ids(rows)

(* ---- the result of the last unit of work ---- *)
Op(op, ok, req, id) == [id |-> id, op |-> op, ok |-> ok, req |-> req]

Reject(op, req, id) ==
    /\ lastOp' = Op(op, FALSE, req, id)
    /\ UNCHANGED <<graphs, nodes, edges, nextGraphId, nextNodeId, nextEdgeId>>

Init ==
    /\ graphs = {}
    /\ nodes = {}
    /\ edges = {}
    /\ nextGraphId = 1
    /\ nextNodeId = 1
    /\ nextEdgeId = 1
    /\ lastOp = Op("Init", TRUE, None, 0)

(* ---- Graph ---- *)
ValidGraphCreate(gc) ==
    /\ gc.name # None
    /\ MaxLengthOk(Get(gc.name), NameMaxLength)
    /\ MaxLengthOk(gc.description, DescriptionMaxLength)

NewGraph(gc) == Graph(nextGraphId, Get(gc.name), gc.description)

CreateGraphOp(gc) ==
    IF ValidGraphCreate(gc)
    THEN /\ nextGraphId <= MaxGraphs
         /\ graphs' = graphs \cup {NewGraph(gc)}
         /\ nextGraphId' = nextGraphId + 1
         /\ lastOp' = Op("CreateGraph", TRUE, gc, nextGraphId)
         /\ UNCHANGED <<nodes, edges, nextNodeId, nextEdgeId>>
    ELSE Reject("CreateGraph", gc, 0)

ValidGraphUpdate(gu) ==
    /\ OptMaxLengthOk(gu.name, NameMaxLength)
    /\ OptMaxLengthOk(gu.description, DescriptionMaxLength)

ApplyGraphUpdate(g, gu) ==
    Graph(g.id, OrDefault(gu.name, g.name), OrDefault(gu.description, g.description))

UpdateGraphOp(id, gu) ==
    IF id \in Ids(graphs) /\ ValidGraphUpdate(gu)
    THEN /\ graphs' = (graphs \ {Row(graphs, id)})
                          \cup {ApplyGraphUpdate(Row(graphs, id), gu)}
         /\ lastOp' = Op("UpdateGraph", TRUE, gu, id)
         /\ UNCHANGED <<nodes, edges, nextGraphId, nextNodeId, nextEdgeId>>
    ELSE Reject("UpdateGraph", gu, id)

(* the unit of work of session.delete(graph): the children reached through  *)
(* a cascade_delete relationship are deleted; the children reached through  *)
(* a relationship without it have their foreign key set to NULL, which the  *)
(* NOT NULL columns source_node_id and target_node_id refuse                *)
DeletedNodes(g) == GraphNodes(g)

DeletedEdges(g) == GraphEdges(g)

NullifiedEdges(ns, es) ==
    UNION {NodeOutgoingEdges(n.id) \cup NodeIncomingEdges(n.id) : n \in ns} \ es

DeletePlan(g) == [nodes |-> Ids(DeletedNodes(g)), edges |-> Ids(DeletedEdges(g))]

DeleteGraphOp(g) ==
    IF /\ g \in Ids(graphs)
       /\ NullifiedEdges(DeletedNodes(g), DeletedEdges(g)) = {}
    THEN /\ graphs' = graphs \ {Row(graphs, g)}
         /\ nodes' = nodes \ DeletedNodes(g)
         /\ edges' = edges \ DeletedEdges(g)
         /\ lastOp' = Op("DeleteGraph", TRUE, DeletePlan(g), g)
         /\ UNCHANGED <<nextGraphId, nextNodeId, nextEdgeId>>
    ELSE Reject("DeleteGraph", None, g)

(* ---- Node ---- *)
ValidNodeCreate(nc) ==
    /\ nc.graph_id # None
    /\ MaxLengthOk(nc.node_id, NodeIdMaxLength)
    /\ MaxLengthOk(nc.label, LabelMaxLength)

NewNode(nc) == Node(nextNodeId, Get(nc.graph_id), nc.node_id, nc.label, nc.data)

CreateNodeOp(nc) ==
    IF ValidNodeCreate(nc) /\ ForeignKeyOk(graphs, Get(nc.graph_id))
    THEN /\ nextNodeId <= MaxNodes
         /\ nodes' = nodes \cup {NewNode(nc)}
         /\ nextNodeId' = nextNodeId + 1
         /\ lastOp' = Op("CreateNode", TRUE, nc, nextNodeId)
         /\ UNCHANGED <<graphs, edges, nextGraphId, nextEdgeId>>
    ELSE Reject("CreateNode", nc, 0)

ValidNodeUpdate(nu) == OptMaxLengthOk(nu.label, LabelMaxLength)

ApplyNodeUpdateClearsUnset(n, nu) ==
    Node(n.id, n.graph_id, n.node_id, OrDefault(nu.label, NodeLabelDefault),
         OrDefault(nu.data, DataDefault))

ApplyNodeUpdate(n, nu) ==
    Node(n.id, n.graph_id, n.node_id, OrDefault(nu.label, n.label),
         OrDefault(nu.data, n.data))

UpdateNodeOp(id, nu) ==
    IF id \in Ids(nodes) /\ ValidNodeUpdate(nu)
    THEN /\ nodes' = (nodes \ {Row(nodes, id)})
                         \cup {ApplyNodeUpdate(Row(nodes, id), nu)}
         /\ lastOp' = Op("UpdateNode", TRUE, nu, id)
         /\ UNCHANGED <<graphs, edges, nextGraphId, nextNodeId, nextEdgeId>>
    ELSE Reject("UpdateNode", nu, id)

DeleteNodeOp(n) ==
    IF /\ n \in Ids(nodes)
       /\ NullifiedEdges({Row(nodes, n)}, {}) = {}
    THEN /\ nodes' = nodes \ {Row(nodes, n)}
         /\ lastOp' = Op("DeleteNode", TRUE, None, n)
         /\ UNCHANGED <<graphs, edges, nextGraphId, nextNodeId, nextEdgeId>>
    ELSE Reject("DeleteNode", None, n)

(* ---- Edge ---- *)
ValidEdgeCreate(ec) ==
    /\ ec.graph_id # None
    /\ ec.source_node_id # None
    /\ ec.target_node_id # None
    /\ OptMaxLengthOk(ec.edge_id, EdgeIdMaxLength)
    /\ MaxLengthOk(ec.label, LabelMaxLength)

EdgeForeignKeysOkGraphOnly(ec) == ForeignKeyOk(graphs, Get(ec.graph_id))

EdgeForeignKeysOk(ec) ==
    /\ ForeignKeyOk(graphs, Get(ec.graph_id))
    /\ ForeignKeyOk(nodes, Get(ec.source_node_id))
    /\ ForeignKeyOk(nodes, Get(ec.target_node_id))

NewEdge(ec) ==
    Edge(nextEdgeId, Get(ec.graph_id), ec.edge_id, Get(ec.source_node_id),
         Get(ec.target_node_id), ec.label, OptQuantize(ec.weight), ec.data)

CreateEdgeOp(ec) ==
    IF /\ ValidEdgeCreate(ec)
       /\ EdgeForeignKeysOk(ec)
       /\ OptFitsNumeric(ec.weight)
    THEN /\ nextEdgeId <= MaxEdges
         /\ edges' = edges \cup {NewEdge(ec)}
         /\ nextEdgeId' = nextEdgeId + 1
         /\ lastOp' = Op("CreateEdge", TRUE, ec, nextEdgeId)
         /\ UNCHANGED <<graphs, nodes, nextGraphId, nextNodeId>>
    ELSE Reject("CreateEdge", ec, 0)

ValidEdgeUpdate(eu) == OptMaxLengthOk(eu.label, LabelMaxLength)

ApplyEdgeUpdate(e, eu) ==
    Edge(e.id, e.graph_id, e.edge_id, e.source_node_id, e.target_node_id,
         OrDefault(eu.label, e.label),
         IF eu.weight = None THEN e.weight ELSE OptQuantize(eu.weight),
         OrDefault(eu.data, e.data))

UpdateEdgeOp(id, eu) ==
    IF id \in Ids(edges) /\ ValidEdgeUpdate(eu) /\ OptFitsNumeric(eu.weight)
    THEN /\ edges' = (edges \ {Row(edges, id)})
                         \cup {ApplyEdgeUpdate(Row(edges, id), eu)}
         /\ lastOp' = Op("UpdateEdge", TRUE, eu, id)
         /\ UNCHANGED <<graphs, nodes, nextGraphId, nextNodeId, nextEdgeId>>
    ELSE Reject("UpdateEdge", eu, id)

DeleteEdgeOp(e) ==
    IF e \in Ids(edges)
    THEN /\ edges' = edges \ {Row(edges, e)}
         /\ lastOp' = Op("DeleteEdge", TRUE, None, e)
         /\ UNCHANGED <<graphs, nodes, nextGraphId, nextNodeId, nextEdgeId>>
    ELSE Reject("DeleteEdge", None, e)

(* ---- GraphInput: a whole graph written in one unit of work ---- *)
ValidNodeData(nd) ==
    /\ MaxLengthOk(nd.id, NodeIdMaxLength)
    /\ OptMaxLengthOk(nd.label, LabelMaxLength)

ValidEdgeData(ed) ==
    /\ OptMaxLengthOk(ed.id, EdgeIdMaxLength)
    /\ MaxLengthOk(ed.source, NodeIdMaxLength)
    /\ MaxLengthOk(ed.target, NodeIdMaxLength)
    /\ OptMaxLengthOk(ed.label, LabelMaxLength)

ValidGraphInput(gi) ==
    /\ OptMaxLengthOk(gi.name, NameMaxLength)
    /\ OptMaxLengthOk(gi.description, DescriptionMaxLength)
    /\ \A i \in 1..Len(gi.nodes) : ValidNodeData(gi.nodes[i])
    /\ \A j \in 1..Len(gi.edges) : ValidEdgeData(gi.edges[j])

(* the positions of the NodeData with the identifier s *)
Named(gi, s) == {i \in 1..Len(gi.nodes) : gi.nodes[i].id = s}

Resolvable(gi) ==
    \A j \in 1..Len(gi.edges) :
        Named(gi, gi.edges[j].source) # {} /\ Named(gi, gi.edges[j].target) # {}

(* the primary key the Node of the first NodeData named s is given *)
ResolveNode(gi, s) ==
    nextNodeId - 1 + CHOOSE i \in Named(gi, s) : \A k \in Named(gi, s) : i <= k

ImportedGraph(gi) ==
    Graph(nextGraphId, OrDefault(gi.name, UntitledGraph),
          OrDefault(gi.description, DescriptionDefault))

ImportedNode(gi, i) ==
    Node(nextNodeId - 1 + i, nextGraphId, gi.nodes[i].id,
         OrDefault(gi.nodes[i].label, NodeLabelDefault),
         OrDefault(gi.nodes[i].data, DataDefault))

ImportedEdge(gi, j) ==
    Edge(nextEdgeId - 1 + j, nextGraphId, gi.edges[j].id,
         ResolveNode(gi, gi.edges[j].source), ResolveNode(gi, gi.edges[j].target),
         OrDefault(gi.edges[j].label, EdgeLabelDefault),
         OptQuantize(gi.edges[j].weight),
         OrDefault(gi.edges[j].data, DataDefault))

ImportGraphOp(gi) ==
    IF /\ ValidGraphInput(gi)
       /\ Resolvable(gi)
       /\ \A j \in 1..Len(gi.edges) : OptFitsNumeric(gi.edges[j].weight)
    THEN /\ nextGraphId <= MaxGraphs
         /\ nextNodeId - 1 + Len(gi.nodes) <= MaxNodes
         /\ nextEdgeId - 1 + Len(gi.edges) <= MaxEdges
         /\ graphs' = graphs \cup {ImportedGraph(gi)}
         /\ nodes' = nodes \cup {ImportedNode(gi, i) : i \in 1..Len(gi.nodes)}
         /\ edges' = edges \cup {ImportedEdge(gi, j) : j \in 1..Len(gi.edges)}
         /\ nextGraphId' = nextGraphId + 1
         /\ nextNodeId' = nextNodeId + Len(gi.nodes)
         /\ nextEdgeId' = nextEdgeId + Len(gi.edges)
         /\ lastOp' = Op("ImportGraph", TRUE, gi, nextGraphId)
    ELSE Reject("ImportGraph", gi, 0)

(* ---- GraphExport ---- *)
MinId(rows) == CHOOSE i \in Ids(rows) : \A j \in Ids(rows) : i <= j

RECURSIVE ByPrimaryKey(_)
ByPrimaryKey(rows) ==
    IF rows = {} THEN <<>>
    ELSE <<Row(rows, MinId(rows))>> \o ByPrimaryKey(rows \ {Row(rows, MinId(rows))})

ExportNode(n) == NodeData(n.node_id, n.label, n.data)

ExportEdge(e) ==
    EdgeData(e.edge_id, Row(nodes, e.source_node_id).node_id,
             Row(nodes, e.target_node_id).node_id, e.label, e.weight, e.data)

Export(g) ==
    GraphExport(Row(graphs, g).name, Row(graphs, g).description,
                [i \in 1..Cardinality(GraphNodes(g)) |->
                    ExportNode(ByPrimaryKey(GraphNodes(g))[i])],
                [j \in 1..Cardinality(GraphEdges(g)) |->
                    ExportEdge(ByPrimaryKey(GraphEdges(g))[j])])

(***************************************************************************)
(* Spec: the tables under creation and deletion of single rows.            *)
(***************************************************************************)
G1 == <<"G", "1">>

N1 == <<"n", "1">>

N2 == <<"n", "2">>

GraphIdInputs == 1..MaxGraphs

NodeRefInputs == 1..MaxNodes

EdgeRefInputs == 1..MaxEdges

Opt(S) == {None} \cup {Some(v) : v \in S}

(* 1.5, 1.5 and four units of the last place written, and a number that   *)
(* rounds to 1000000                                                        *)
W15 == Dec(1, 5 * Pow10(FracDigits - 1))

W15Fine == Dec(1, 5 * Pow10(FracDigits - 1) + 4)

WTooBig == Dec(999999, Pow10(FracDigits) - 4)

WeightInputs == {None, Some(W15), Some(W15Fine), Some(WTooBig)}

CreateGraph ==
    \E name \in {None, Some(G1)} : CreateGraphOp(GraphCreate(name, DescriptionDefault))

DeleteGraph == \E g \in GraphIdInputs : DeleteGraphOp(g)

CreateNode ==
    \E graph_id \in Opt(GraphIdInputs), node_id \in {N1, N2} :
        CreateNodeOp(NodeCreate(graph_id, node_id, NodeLabelDefault, DataDefault))

DeleteNode == \E n \in NodeRefInputs : DeleteNodeOp(n)

CreateEdge ==
    \E graph_id \in Opt(GraphIdInputs), source \in Opt(NodeRefInputs),
       target \in Opt(NodeRefInputs), weight \in WeightInputs :
        CreateEdgeOp(EdgeCreate(graph_id, None, source, target, EdgeLabelDefault,
                                weight, DataDefault))

DeleteEdge == \E e \in EdgeRefInputs : DeleteEdgeOp(e)

Next ==
    \/ CreateGraph
    \/ DeleteGraph
    \/ CreateNode
    \/ DeleteNode
    \/ CreateEdge
    \/ DeleteEdge

Spec == Init /\ [][Next]_vars

(***************************************************************************)
(* Referential integrity, checked under Spec.                              *)
(***************************************************************************)

(* C1: right after a Graph is deleted no Node and no Edge with its id as   *)
(* graph_id exists, and in every state no Node or Edge carries the id of a  *)
(* Graph that was created and has since been deleted.                       *)
C1_GraphDeleteCascades ==
    /\ (lastOp.op = "DeleteGraph" /\ lastOp.ok) =>
           /\ lastOp.id \notin Ids(graphs)
           /\ \A n \in nodes : n.graph_id # lastOp.id
           /\ \A e \in edges : e.graph_id # lastOp.id
    /\ \A g \in 1..(nextGraphId - 1) :
           g \notin Ids(graphs) =>
               /\ \A n \in nodes : n.graph_id # g
               /\ \A e \in edges : e.graph_id # g

C1_Witness ==
    /\ lastOp.op = "DeleteGraph"
    /\ lastOp.ok
    /\ lastOp.req.nodes # {}
    /\ lastOp.req.edges # {}
    /\ graphs # {}

(* C2: the endpoints of every Edge are Nodes of the Edge's own Graph.       *)
C2_EndpointsInSameGraph ==
    \A e \in edges : \A n \in nodes :
        n.id \in {e.source_node_id, e.target_node_id} => n.graph_id = e.graph_id

(* C3: after a request to delete a Node no Edge has that Node as its source *)
(* or its target.                                                           *)
C3_NodeDeleteCascades ==
    lastOp.op = "DeleteNode" =>
        \A e \in edges : e.source_node_id # lastOp.id /\ e.target_node_id # lastOp.id

(* C4: every Node and every Edge has a graph_id, an integer, and it is the  *)
(* id of a Graph that exists.                                               *)
C4_OwningGraphExists ==
    /\ \A n \in nodes : n.graph_id \in Nat /\ n.graph_id \in Ids(graphs)
    /\ \A e \in edges : e.graph_id \in Nat /\ e.graph_id \in Ids(graphs)

C4_Witness ==
    /\ nodes # {}
    /\ edges # {}
    /\ Cardinality(graphs) < nextGraphId - 1
    /\ lastOp.op = "CreateNode"
    /\ ~lastOp.ok

(* C5: an insert of a Node whose graph_id names no Graph, or of an Edge     *)
(* whose graph_id, source_node_id or target_node_id names no Graph or Node, *)
(* is rejected and leaves graphs, nodes and edges as they were.             *)
C5_ForeignKeyViolationRejected ==
    [][/\ ( /\ lastOp'.op = "CreateNode"
            /\ lastOp'.req.graph_id # None
            /\ Get(lastOp'.req.graph_id) \notin Ids(graphs) )
          => (~lastOp'.ok /\ store' = store)
       /\ ( /\ lastOp'.op = "CreateEdge"
            /\ lastOp'.req.graph_id # None
            /\ lastOp'.req.source_node_id # None
            /\ lastOp'.req.target_node_id # None
            /\ \/ Get(lastOp'.req.graph_id) \notin Ids(graphs)
               \/ Get(lastOp'.req.source_node_id) \notin Ids(nodes)
               \/ Get(lastOp'.req.target_node_id) \notin Ids(nodes) )
          => (~lastOp'.ok /\ store' = store)]_vars

C5_Witness ==
    /\ lastOp.op = "CreateEdge"
    /\ ~lastOp.ok
    /\ lastOp.req.graph_id # None
    /\ lastOp.req.source_node_id # None
    /\ lastOp.req.target_node_id # None
    /\ Get(lastOp.req.graph_id) \in Ids(graphs)
    /\ Get(lastOp.req.source_node_id) \in Ids(nodes)
    /\ Get(lastOp.req.target_node_id) \notin Ids(nodes)
    /\ nodes # {}

AbsDiff(d, q) ==
    LET x == (q.whole - d.whole) * Pow10(FracDigits) + (q.frac - d.frac)
    IN  IF x < 0 THEN 0 - x ELSE x

RoundedTo6(d, q) ==
    /\ q.frac % Pow10(FracDigits - 6) = 0
    /\ 2 * AbsDiff(d, q) <= Pow10(FracDigits - 6)

LastEdge(x) == x.edges[Len(x.edges)]

LongNameInputs ==
    {None, Some(G1), Some(Str(NameMaxLength)), Some(Str(NameMaxLength + 1))}

LongDescriptionInputs == {EmptyStr, Str(DescriptionMaxLength + 1)}

LongNodeIdInputs == {N1, Str(NodeIdMaxLength), Str(NodeIdMaxLength + 1)}

LenCreateGraph ==
    \E name \in LongNameInputs, description \in LongDescriptionInputs :
        CreateGraphOp(GraphCreate(name, description))

LenUpdateGraph ==
    \E id \in GraphIdInputs, name \in LongNameInputs :
        UpdateGraphOp(id, GraphUpdate(name, None))

LenCreateNode ==
    \E graph_id \in GraphIdInputs, node_id \in LongNodeIdInputs :
        CreateNodeOp(NodeCreate(Some(graph_id), node_id, NodeLabelDefault, DataDefault))

LenImportGraph ==
    \E name \in LongNameInputs,
       ns \in {<<>>} \cup {<<NodeData(x, None, None)>> : x \in LongNodeIdInputs} :
        ImportGraphOp(GraphInput(name, None, ns, <<>>))

NextLengths ==
    \/ LenCreateGraph
    \/ LenUpdateGraph
    \/ LenCreateNode
    \/ LenImportGraph

SpecLengths == Init /\ [][NextLengths]_vars

(* C6: no stored Graph has a name of more than 200 characters and no stored *)
(* Node a node_id of more than 100, and a create, update or import request  *)
(* that carries such a name or identifier is rejected.                      *)
TooLong(o, n) == o # None /\ Len(Get(o)) > n

C6_LengthLimitsEnforced ==
    /\ \A g \in graphs : Len(g.name) <= 200
    /\ \A n \in nodes : Len(n.node_id) <= 100
    /\ (lastOp.op \in {"CreateGraph", "UpdateGraph", "ImportGraph"}
            /\ TooLong(lastOp.req.name, 200)) => ~lastOp.ok
    /\ (lastOp.op = "CreateNode" /\ Len(lastOp.req.node_id) > 100) => ~lastOp.ok
    /\ (lastOp.op = "ImportGraph"
            /\ \E i \in 1..Len(lastOp.req.nodes) : Len(lastOp.req.nodes[i].id) > 100)
           => ~lastOp.ok

C6_Witness ==
    /\ lastOp.op = "UpdateGraph"
    /\ ~lastOp.ok
    /\ lastOp.id \in Ids(graphs)
    /\ TooLong(lastOp.req.name, 200)
    /\ \E g \in graphs : Len(g.name) = 200
    /\ \E n \in nodes : Len(n.node_id) = 100

(***************************************************************************)
(* SpecRoundTrip: graphs written from a GraphInput and read back as a      *)
(* GraphExport.                                                             *)
(***************************************************************************)
E1 == <<"e", "1">>

LabelA == <<"A">>

D1 == {<<"k", 1>>}

NodeDataInputs ==
    {NodeData(N1, ld[1], ld[2]) :
        ld \in {<<None, None>>, <<Some(LabelA), None>>, <<Some(LabelA), Some(D1)>>}}
    \cup {NodeData(N2, ld[1], ld[2]) :
        ld \in {<<None, None>>, <<Some(LabelA), Some(D1)>>}}

EdgeDataInputs ==
    {EdgeData(xld[1], st[1], st[2], xld[2], xld[3], xld[4]) :
        st \in {<<N1, N1>>, <<N1, N2>>, <<N2, N1>>},
        xld \in {<<None, None, None, None>>,
                 <<Some(E1), Some(LabelA), Some(W15), Some(D1)>>}}

SeqsUpTo(S, k) == UNION {[1..m -> S] : m \in 0..k}

ImportGraph ==
    \E ns \in SeqsUpTo(NodeDataInputs, MaxNodes),
       es \in SeqsUpTo(EdgeDataInputs, MaxEdges) :
        ImportGraphOp(GraphInput(Some(G1), None, ns, es))

NextRoundTrip == ImportGraph

SpecRoundTrip == Init /\ [][NextRoundTrip]_vars

(* C7: the export of a Graph just written from a GraphInput has the nodes   *)
(* and edges of the input in order, each with the identifier of the input   *)
(* (an omitted edge id stays None), with the label and data of the input    *)
(* where it gives them, and with the empty label and the empty map where it *)
(* omits them.                                                              *)
GivenOr(o, d, v) == IF o = None THEN v = d ELSE v = Get(o)

G2 == <<"G", "2">>

UpdCreateGraph == CreateGraphOp(GraphCreate(Some(G1), DescriptionDefault))

UpdCreateNode ==
    \E graph_id \in GraphIdInputs :
        CreateNodeOp(NodeCreate(Some(graph_id), N1, NodeLabelDefault, DataDefault))

UpdCreateEdge ==
    \E graph_id \in GraphIdInputs, source \in NodeRefInputs, target \in NodeRefInputs :
        CreateEdgeOp(EdgeCreate(Some(graph_id), None, Some(source), Some(target),
                                EdgeLabelDefault, None, DataDefault))

UpdateGraph ==
    \E id \in GraphIdInputs, name \in {None, Some(G2)},
       description \in {None, Some(<<"d">>)} :
        UpdateGraphOp(id, GraphUpdate(name, description))

UpdateNode ==
    \E id \in NodeRefInputs, label \in {None, Some(LabelA)}, data \in {None, Some(D1)} :
        UpdateNodeOp(id, NodeUpdate(label, data))

UpdateEdge ==
    \E id \in EdgeRefInputs, label \in {None, Some(LabelA)},
       weight \in {None, Some(W15), Some(WTooBig)} :
        UpdateEdgeOp(id, EdgeUpdate(label, weight, None))

NextUpdate ==
    \/ UpdCreateGraph
    \/ UpdCreateNode
    \/ UpdCreateEdge
    \/ UpdateGraph
    \/ UpdateNode
    \/ UpdateEdge

SpecUpdate == Init /\ [][NextUpdate]_vars

(* C10: an update changes neither which Graphs, Nodes and Edges exist nor   *)
(* the id of a row, the graph_id or node_id of a Node, or the graph_id,     *)
(* edge_id, source_node_id or target_node_id of an Edge; it changes no row  *)
(* but the one it names, and in that row every field the update leaves      *)
(* unset keeps its value.                                                   *)
NodeKeys(ns) == {<<n.id, n.graph_id, n.node_id>> : n \in ns}

EdgeKeys(es) ==
    {<<e.id, e.graph_id, e.edge_id, e.source_node_id, e.target_node_id>> : e \in es}

Others(rows, id) == {r \in rows : r.id # id}

Kept(o, old, new) == o = None => new = old

====
